---------------------------- MODULE Spec2Model ----------------------------
(***************************************************************************)
(* Personal Expense Tracker: the user store, the expense store, the        *)
(* registration handler and the dashboard aggregation, as a state machine. *)
(*                                                                         *)
(* The database is SQLite (config.py: sqlite:///database.db; the dashboard *)
(* calls SQLite's strftime).  A Date column is stored as the text          *)
(* YYYY-MM-DD, a datetime parameter is bound as the text                   *)
(* YYYY-MM-DD HH:MM:SS.ffffff, and texts are compared byte by byte.        *)
(* Texts are modelled as sequences of one-character strings.               *)
(*                                                                         *)
(* Expense.amount is a Float column.  A float is modelled as the whole     *)
(* number of quanta it stands for, and every addition rounds its result to *)
(* MantissaBits significant bits, ties to even: binary floating point with *)
(* the 53-bit significand scaled down to MantissaBits bits.                *)
(***************************************************************************)
EXTENDS Integers, Sequences, FiniteSets, TLC

VARIABLES users, expenses, reg, view

vars == <<users, expenses, reg, view>>

---------------------------------------------------------------------------
(* Bounds and inputs                                                       *)

MaxUserId == 2

MaxExpenseId == 2

MaxLedgerId == 3

MantissaBits == 3

RecentLimit == 5

TrendWindowDays == 180

Usernames == {"alice", "bob"}

Emails == {"a@x.org", "b@x.org"}

RegForms == {<<"alice", "a@x.org">>, <<"bob", "b@x.org">>}

Requests == {"r1", "r2"}

Amounts == {1, 8}

Categories == {"Food", "Transport"}

D(y, m, d) == [y |-> y, m |-> m, d |-> d]

Dates == {D(2023, 9, 17), D(2024, 2, 29), D(2024, 3, 1)}

DT(y, m, d, hh, mi, ss) ==
    [y |-> y, m |-> m, d |-> d, hh |-> hh, mi |-> mi, ss |-> ss, us |-> 0]

Nows == {DT(2024, 3, 15, 0, 0, 0), DT(2023, 9, 18, 10, 30, 0)}

---------------------------------------------------------------------------
(* Texts                                                                   *)

\* The characters that occur in date texts, in ascending byte order.
Chars == <<" ", "-", ".", "0", "1", "2", "3", "4", "5", "6", "7", "8", "9", ":">>

RankOf == [c \in {Chars[i] : i \in 1..Len(Chars)} |->
              CHOOSE i \in 1..Len(Chars) : Chars[i] = c]

CharRank(c) == RankOf[c]

DigitChar(n) == Chars[n + 4]

DigitVal(c) == CharRank(c) - 4

\* Byte-wise text comparison: a proper prefix sorts first.
RECURSIVE TextLessFrom(_, _, _)
TextLessFrom(a, b, i) ==
    IF i > Len(b) THEN FALSE
    ELSE IF i > Len(a) THEN TRUE
    ELSE IF a[i] # b[i] THEN CharRank(a[i]) < CharRank(b[i])
    ELSE TextLessFrom(a, b, i + 1)

TextLess(a, b) == TextLessFrom(a, b, 1)

TextGeq(a, b) == ~TextLess(a, b)

Pad2(n) == <<DigitChar((n \div 10) % 10), DigitChar(n % 10)>>

Pad4(n) == Pad2(n \div 100) \o Pad2(n % 100)

Pad6(n) == Pad2(n \div 10000) \o Pad4(n % 10000)

\* Python's str() of a non-negative int.
RECURSIVE Str(_)
Str(n) == IF n < 10 THEN <<DigitChar(n)>> ELSE Str(n \div 10) \o <<DigitChar(n % 10)>>

\* Python's int() of a text of digits.
RECURSIVE Int_(_)
Int_(s) == IF s = <<>> THEN 0 ELSE 10 * Int_(SubSeq(s, 1, Len(s) - 1)) + DigitVal(s[Len(s)])

\* How a Date column value is stored: %(year)04d-%(month)02d-%(day)02d.
FormatDate(d) == Pad4(d.y) \o <<"-">> \o Pad2(d.m) \o <<"-">> \o Pad2(d.d)

StoredDateText == [d \in Dates |-> FormatDate(d)]

DateText(d) == StoredDateText[d]

\* How a datetime parameter is bound.
DateTimeText(t) ==
    Pad4(t.y) \o <<"-">> \o Pad2(t.m) \o <<"-">> \o Pad2(t.d) \o <<" ">>
    \o Pad2(t.hh) \o <<":">> \o Pad2(t.mi) \o <<":">> \o Pad2(t.ss)
    \o <<".">> \o Pad6(t.us)

\* SQLite strftime over a stored date.
strftime_Y(d) == SubSeq(DateText(d), 1, 4)

strftime_m(d) == SubSeq(DateText(d), 6, 7)

strftime_Ym(d) == SubSeq(DateText(d), 1, 7)

---------------------------------------------------------------------------
(* Calendar                                                                *)

IsLeap(y) == (y % 4 = 0 /\ y % 100 # 0) \/ y % 400 = 0

DaysInMonth(y, m) ==
    IF m = 2 THEN (IF IsLeap(y) THEN 29 ELSE 28)
    ELSE IF m \in {4, 6, 9, 11} THEN 30 ELSE 31

\* datetime - timedelta(days=n): the time of day is kept.
RECURSIVE MinusDays(_, _)
MinusDays(t, n) ==
    IF n < t.d THEN [t EXCEPT !.d = t.d - n]
    ELSE LET py == IF t.m = 1 THEN t.y - 1 ELSE t.y
             pm == IF t.m = 1 THEN 12 ELSE t.m - 1
         IN  MinusDays([t EXCEPT !.y = py, !.m = pm, !.d = DaysInMonth(py, pm)],
                       n - t.d)

\* today.replace(day=1, hour=0, minute=0, second=0, microsecond=0)
FirstDay(t) == [t EXCEPT !.d = 1, !.hh = 0, !.mi = 0, !.ss = 0, !.us = 0]

---------------------------------------------------------------------------
(* Rows and SQL aggregates                                                 *)

RECURSIVE Pow2(_)
Pow2(k) == IF k = 0 THEN 1 ELSE 2 * Pow2(k - 1)

\* The number of bits of n > 0.
RECURSIVE BitLength(_)
BitLength(n) == IF n < 2 THEN 1 ELSE 1 + BitLength(n \div 2)

\* Round n >= 0 to MantissaBits significant bits, ties to even.
FloatRound(n) ==
    IF n < Pow2(MantissaBits) THEN n
    ELSE LET ulp  == Pow2(BitLength(n) - MantissaBits)
             q    == n \div ulp
             r    == n % ulp
             up   == 2 * r > ulp \/ (2 * r = ulp /\ q % 2 = 1)
         IN  (IF up THEN q + 1 ELSE q) * ulp

\* Float addition.
FloatAdd(a, b) == FloatRound(a + b)

\* SUM(amount) / Python's sum(): the amounts are added one row after the
\* other, in the order SQLite scans the table (ascending id).
RECURSIVE SumAmounts(_)
SumAmounts(rows) ==
    IF rows = {} THEN 0
    ELSE LET last == CHOOSE x \in rows : \A y \in rows : y.id <= x.id
         IN  FloatAdd(SumAmounts(rows \ {last}), last.amount)

\* A scalar result: SQL NULL (Python None) or a number.
Null == [null |-> TRUE, val |-> 0]

Num(n) == [null |-> FALSE, val |-> n]

\* func.sum(...).scalar(): NULL over no rows.
SqlSum(rows) == IF rows = {} THEN Null ELSE Num(SumAmounts(rows))

\* Faulty variant: the "or 0.0" is left out.
OrZero_Omitted(x) == x

\* Python's "x or 0.0": None and 0 are falsy.
OrZero(x) == IF x.null \/ x.val = 0 THEN Num(0) ELSE x

\* filter_by(user_id=...) / filter(Expense.user_id == ...)
OwnedBy(rows, user_id) == {e \in rows : e.user_id = user_id}

\* SQLite rowid of the next inserted row: one past the largest in the table.
NextId(rows) == IF rows = {} THEN 1
                ELSE (CHOOSE r \in rows : \A q \in rows : q.id <= r.id).id + 1

---------------------------------------------------------------------------
(* User model methods                                                      *)

\* sum(expense.amount for expense in self.expenses)
get_total_expenses(rows, user_id) == SumAmounts(OwnedBy(rows, user_id))

\* GROUP BY category: one row per distinct category, in no specified order.
GroupByCategory(rows) ==
    {[category |-> c, total |-> SumAmounts({e \in rows : e.category = c})] :
        c \in {e.category : e \in rows}}

get_expenses_by_category(rows, user_id) == GroupByCategory(OwnedBy(rows, user_id))

---------------------------------------------------------------------------
(* Dashboard queries (index)                                               *)

first_day(today) == FirstDay(today)

six_months_ago(today) == MinusDays(today, TrendWindowDays)

current_year(today) == today.y

\* The parameters of the queries, as bound for each clock reading.
FirstDayParam == [today \in Nows |-> DateTimeText(first_day(today))]

SixMonthsAgoParam == [today \in Nows |-> DateTimeText(six_months_ago(today))]

CurrentYearText == [today \in Nows |-> Str(current_year(today))]

\* Expense.date >= <datetime>: the stored date text against the bound text.
DateGeq(date, bound) == TextGeq(DateText(date), bound)

total_expenses(rows, user_id) == OrZero(SqlSum(OwnedBy(rows, user_id)))

monthly_expenses(rows, user_id, today) ==
    LET bound == FirstDayParam[today]
    IN  OrZero(SqlSum({e \in OwnedBy(rows, user_id) : DateGeq(e.date, bound)}))

category_data(rows, user_id) == GroupByCategory(OwnedBy(rows, user_id))

\* The texts of a set in ascending order.
RECURSIVE SortTexts(_)
SortTexts(S) ==
    IF S = {} THEN <<>>
    ELSE LET lo == CHOOSE x \in S : \A y \in S : ~TextLess(y, x)
         IN  <<lo>> \o SortTexts(S \ {lo})

\* Faulty variant: the filter on Expense.user_id is left out.
TrendRows_AllUsers(rows, user_id, today) ==
    LET bound == SixMonthsAgoParam[today]
    IN  {e \in rows : DateGeq(e.date, bound)}

TrendRows(rows, user_id, today) ==
    LET bound == SixMonthsAgoParam[today]
    IN  {e \in OwnedBy(rows, user_id) : DateGeq(e.date, bound)}

monthly_trend(rows, user_id, today) ==
    LET sel    == TrendRows(rows, user_id, today)
        labels == SortTexts({strftime_Ym(e.date) : e \in sel})
    IN  [i \in 1..Len(labels) |->
            [month |-> labels[i],
             total |-> SumAmounts({e \in sel : strftime_Ym(e.date) = labels[i]})]]

\* ORDER BY date DESC LIMIT n: the next row is any row with the latest stored
\* date; the order among rows of one date is not specified.
Latest(rows) ==
    {e \in rows : \A o \in rows : ~TextLess(DateText(e.date), DateText(o.date))}

RECURSIVE OrderedByDateDesc(_, _)
OrderedByDateDesc(rows, n) ==
    IF rows = {} \/ n = 0 THEN {<<>>}
    ELSE UNION {{<<e>> \o s : s \in OrderedByDateDesc(rows \ {e}, n - 1)} :
                   e \in Latest(rows)}

recent_expenses(rows, user_id) == OrderedByDateDesc(OwnedBy(rows, user_id), RecentLimit)

\* Faulty variant: the filter on the year is left out.
yearly_expenses_AnyYear(rows, user_id, today) ==
    LET sel == OwnedBy(rows, user_id)
    IN  {[month |-> mm, total |-> SumAmounts({e \in sel : strftime_m(e.date) = mm})] :
            mm \in {strftime_m(e.date) : e \in sel}}

yearly_expenses(rows, user_id, today) ==
    LET year == CurrentYearText[today]
        sel  == {e \in OwnedBy(rows, user_id) : strftime_Y(e.date) = year}
    IN  {[month |-> mm, total |-> SumAmounts({e \in sel : strftime_m(e.date) = mm})] :
            mm \in {strftime_m(e.date) : e \in sel}}

\* yearly_data = [0] * 12, then one assignment per row of yearly_expenses.
yearly_data(rows, user_id, today) ==
    LET items == {[month_idx |-> Int_(item.month) - 1, total |-> item.total] :
                     item \in yearly_expenses(rows, user_id, today)}
    IN  [i \in 1..12 |->
            IF \E item \in items : item.month_idx = i - 1
            THEN (CHOOSE item \in items : item.month_idx = i - 1).total
            ELSE 0]

---------------------------------------------------------------------------
(* Responses                                                               *)

\* redirect(...) / render_template of a form page
Redirect == [kind |-> "redirect"]

FormPage == [kind |-> "form"]

\* render_template('dashboard/index.html', ...)
DashboardPage(rows, user_id, today, recent) ==
    [kind             |-> "dashboard",
     user_id          |-> user_id,
     today            |-> today,
     total_expenses   |-> total_expenses(rows, user_id),
     monthly_expenses |-> monthly_expenses(rows, user_id, today),
     category_data    |-> category_data(rows, user_id),
     monthly_trend    |-> monthly_trend(rows, user_id, today),
     recent_expenses  |-> recent,
     yearly_data      |-> yearly_data(rows, user_id, today)]

---------------------------------------------------------------------------
(* User store                                                              *)

UserIds == {u.id : u \in users}

\* User.query.filter_by(username=...).first()
UsernameExists(username) == \E u \in users : u.username = username

\* User.query.filter_by(email=...).first()
EmailExists(email) == \E u \in users : u.email = email

\* "First user becomes admin": role from User.query.count(); default 'user'.
RoleForCount(n) == IF n = 0 THEN "admin" ELSE "user"

\* Faulty variant: the columns are not declared unique.
UniqueViolation_Unenforced(username, email) == FALSE

\* unique=True on users.username and users.email, enforced at INSERT.
UniqueViolation(username, email) == UsernameExists(username) \/ EmailExists(email)

\* db.session.add(user); db.session.commit()
Inserted(username, email, role) ==
    IF UniqueViolation(username, email) THEN users
    ELSE users \cup {[id |-> NextId(users), username |-> username,
                      email |-> email, role |-> role]}

\* Faulty variant: the relationship has no cascade.
CascadeDelete_None(rows, user_id) == rows

\* relationship(..., cascade='all, delete-orphan'): the rows that stay.
CascadeDelete(rows, user_id) == {e \in rows : e.user_id # user_id}

---------------------------------------------------------------------------
(* Registration, one request at a time                                     *)

Idle == [pc |-> "idle", username |-> "", email |-> "", role |-> "user"]

register(form) ==
    /\ NextId(users) <= MaxUserId
    /\ IF UsernameExists(form[1]) \/ EmailExists(form[2])
       THEN /\ users' = users
            /\ view' = FormPage
       ELSE /\ users' = Inserted(form[1], form[2], RoleForCount(Cardinality(users)))
            /\ view' = Redirect
    /\ UNCHANGED <<expenses, reg>>

---------------------------------------------------------------------------
(* Registration, request by request: every query is its own step           *)

\* form.validate_on_submit()
Submit(r, username, email) ==
    /\ reg[r].pc = "idle"
    /\ NextId(users) <= MaxUserId
    /\ reg' = [reg EXCEPT ![r] = [pc |-> "username", username |-> username,
                                  email |-> email, role |-> "user"]]
    /\ UNCHANGED <<users, expenses, view>>

CheckUsername(r) ==
    /\ reg[r].pc = "username"
    /\ reg' = [reg EXCEPT ![r] = IF UsernameExists(reg[r].username) THEN Idle
                                 ELSE [@ EXCEPT !.pc = "email"]]
    /\ UNCHANGED <<users, expenses, view>>

CheckEmail(r) ==
    /\ reg[r].pc = "email"
    /\ reg' = [reg EXCEPT ![r] = IF EmailExists(reg[r].email) THEN Idle
                                 ELSE [@ EXCEPT !.pc = "count"]]
    /\ UNCHANGED <<users, expenses, view>>

CountUsers(r) ==
    /\ reg[r].pc = "count"
    /\ reg' = [reg EXCEPT ![r] = [@ EXCEPT !.pc = "commit",
                                           !.role = RoleForCount(Cardinality(users))]]
    /\ UNCHANGED <<users, expenses, view>>

Commit(r) ==
    /\ reg[r].pc = "commit"
    /\ users' = Inserted(reg[r].username, reg[r].email, reg[r].role)
    /\ reg' = [reg EXCEPT ![r] = Idle]
    /\ UNCHANGED <<expenses, view>>

---------------------------------------------------------------------------
(* Expense store and user deletion                                         *)

CreateExpense(user_id, amount, category, date) ==
    /\ user_id \in UserIds
    /\ expenses' = expenses \cup {[id |-> NextId(expenses), user_id |-> user_id,
                                   amount |-> amount, category |-> category,
                                   date |-> date]}
    /\ view' = Redirect
    /\ UNCHANGED <<users, reg>>

EditExpense(user_id, e, amount, category, date) ==
    /\ user_id \in UserIds
    /\ e \in OwnedBy(expenses, user_id)
    /\ expenses' = (expenses \ {e}) \cup
                      {[e EXCEPT !.amount = amount, !.category = category,
                                 !.date = date]}
    /\ view' = Redirect
    /\ UNCHANGED <<users, reg>>

DeleteExpense(user_id, e) ==
    /\ user_id \in UserIds
    /\ e \in OwnedBy(expenses, user_id)
    /\ expenses' = expenses \ {e}
    /\ view' = Redirect
    /\ UNCHANGED <<users, reg>>

DeleteUser(u) ==
    /\ u \in users
    /\ users' = users \ {u}
    /\ expenses' = CascadeDelete(expenses, u.id)
    /\ view' = [kind |-> "user_deleted", user_id |-> u.id]
    /\ UNCHANGED reg

---------------------------------------------------------------------------
(* Dashboard                                                               *)

index(user_id, today) ==
    /\ user_id \in UserIds
    /\ LET page == DashboardPage(expenses, user_id, today, <<>>)
       IN  view' \in {[page EXCEPT !.recent_expenses = recent] :
                         recent \in recent_expenses(expenses, user_id)}
    /\ UNCHANGED <<users, expenses, reg>>

---------------------------------------------------------------------------
(* Specifications                                                          *)

Init ==
    /\ users = {}
    /\ expenses = {}
    /\ reg = [r \in Requests |-> Idle]
    /\ view = [kind |-> "none"]

DoRegister == \E form \in RegForms : register(form)

DoCreateExpense ==
    /\ NextId(expenses) <= MaxExpenseId
    /\ \E u \in UserIds, a \in Amounts, c \in Categories, d \in Dates :
          CreateExpense(u, a, c, d)

DoCreateLedgerExpense ==
    /\ NextId(expenses) <= MaxLedgerId
    /\ \E u \in UserIds, a \in Amounts, c \in Categories, d \in Dates :
          CreateExpense(u, a, c, d)

\* The edit form comes back with one field changed; any other edit is a
\* sequence of these.
DoEditExpense ==
    \E e \in expenses :
        \/ \E a \in Amounts \ {e.amount} :
              EditExpense(e.user_id, e, a, e.category, e.date)
        \/ \E c \in Categories \ {e.category} :
              EditExpense(e.user_id, e, e.amount, c, e.date)
        \/ \E d \in Dates \ {e.date} :
              EditExpense(e.user_id, e, e.amount, e.category, d)

DoDeleteExpense == \E e \in expenses : DeleteExpense(e.user_id, e)

DoDeleteUser == \E u \in users : DeleteUser(u)

DoIndex == \E u \in UserIds, today \in Nows : index(u, today)

\* Signed-in users at work: registration, expense CRUD and the dashboard.
Next ==
    \/ DoRegister
    \/ DoCreateExpense
    \/ DoEditExpense
    \/ DoDeleteExpense
    \/ DoIndex

Spec == Init /\ [][Next]_vars

\* Accounts coming and going: registration, expense CRUD and user deletion.
NextAdmin ==
    \/ DoRegister
    \/ DoCreateExpense
    \/ DoEditExpense
    \/ DoDeleteExpense
    \/ DoDeleteUser

SpecAdmin == Init /\ [][NextAdmin]_vars

\* Users who only add expenses and look at the dashboard, with room for
\* one more expense.
NextLedger ==
    \/ DoRegister
    \/ DoCreateLedgerExpense
    \/ DoIndex

SpecLedger == Init /\ [][NextLedger]_vars

DoSubmit == \E r \in Requests, n \in Usernames, m \in Emails : Submit(r, n, m)

DoCheckUsername == \E r \in Requests : CheckUsername(r)

DoCheckEmail == \E r \in Requests : CheckEmail(r)

DoCountUsers == \E r \in Requests : CountUsers(r)

DoCommit == \E r \in Requests : Commit(r)

NextReg ==
    \/ DoSubmit
    \/ DoCheckUsername
    \/ DoCheckEmail
    \/ DoCountUsers
    \/ DoCommit
    \/ DoDeleteUser

SpecReg == Init /\ [][NextReg]_vars

---------------------------------------------------------------------------
(* Properties                                                              *)

\* The sum of the totals of a breakdown, as a number.
RECURSIVE SumTotals(_)
SumTotals(items) ==
    IF items = {} THEN 0
    ELSE LET x == CHOOSE i \in items : TRUE
         IN  x.total + SumTotals(items \ {x})

\* The sums a reader of the breakdown can get in floating point: the totals
\* added one after the other, in any order.
RECURSIVE FloatSumsOfTotals(_)
FloatSumsOfTotals(items) ==
    IF items = {} THEN {0}
    ELSE UNION {{FloatAdd(s, x.total) : s \in FloatSumsOfTotals(items \ {x})} :
                x \in items}

\* The totals of a breakdown add up to total, exactly or in floating point.
AddUpTo(items, total) ==
    total \in {SumTotals(items)} \cup FloatSumsOfTotals(items)

Shown == view.kind = "dashboard"

\* The rows of the user the dashboard was rendered for.
Own == OwnedBy(expenses, view.user_id)

\* Calendar order of two dates, field by field.
OnOrAfter(a, b) ==
    \/ a.y > b.y
    \/ a.y = b.y /\ a.m > b.m
    \/ a.y = b.y /\ a.m = b.m /\ a.d >= b.d

\* C1: the per-category totals of the category breakdown add up to the
\* overall total of the same user, on the dashboard and in the User methods.
C1_CategoryTotalsSumToTotal ==
    /\ Shown => /\ ~view.total_expenses.null
                /\ AddUpTo(view.category_data, view.total_expenses.val)
    /\ \A u \in UserIds :
          AddUpTo(get_expenses_by_category(expenses, u),
                  get_total_expenses(expenses, u))

\* C2: for a user with no expenses the dashboard is rendered, with total 0,
\* current-month total 0, no category, no trend entry and twelve zeros.
C2_EmptyUserAllZero ==
    /\ \A u \in UserIds : OwnedBy(expenses, u) = {} =>
          /\ \A today \in Nows : ENABLED index(u, today)
          /\ get_total_expenses(expenses, u) = 0
          /\ get_expenses_by_category(expenses, u) = {}
    /\ (Shown /\ Own = {}) =>
          /\ view.total_expenses = Num(0)
          /\ view.monthly_expenses = Num(0)
          /\ view.category_data = {}
          /\ view.monthly_trend = <<>>
          /\ view.recent_expenses = <<>>
          /\ view.yearly_data = [i \in 1..12 |-> 0]

C2_Witness == Shown /\ Own = {} /\ expenses # {}

\* C3: the yearly series has 12 entries; entry m (January = 1) is the sum of
\* the user's amounts dated in month m of the current year, 0 without any.
C3_YearlySeries ==
    Shown =>
        /\ Len(view.yearly_data) = 12
        /\ \A m \in 1..12 :
              view.yearly_data[m] =
                  SumAmounts({e \in Own : e.date.y = view.today.y /\ e.date.m = m})

C3_Witness ==
    /\ Shown
    /\ \E e \in Own : e.date.y # view.today.y
    /\ \E m \in 1..12 : view.yearly_data[m] > 0

\* C8: every aggregate shown to a user is the one computed from that user's
\* rows alone, whatever rows other users own.
C8_OnlyOwnRows ==
    Shown =>
        /\ [view EXCEPT !.recent_expenses = <<>>]
              = DashboardPage(Own, view.user_id, view.today, <<>>)
        /\ view.recent_expenses \in recent_expenses(Own, view.user_id)

C8_Witness == Shown /\ Own # {} /\ expenses # Own

\* "YYYY-MM" of a calendar month.
MonthLabel(y, m) == Pad4(y) \o <<"-">> \o Pad2(m)

\* The calendar day of a datetime.
DayOf(t) == D(t.y, t.m, t.d)

\* C4: the monthly trend has exactly one entry per YYYY-MM bucket holding an
\* expense of the user dated on or after the cut-off date, with the bucket's
\* sum, in strictly ascending label order.
C4_TrendFromCutoff ==
    Shown =>
        LET cutoff  == DayOf(six_months_ago(view.today))
            sel     == {e \in Own : OnOrAfter(e.date, cutoff)}
            buckets == {<<e.date.y, e.date.m>> : e \in sel}
            trend   == view.monthly_trend
        IN  /\ Len(trend) = Cardinality(buckets)
            /\ \A i, j \in 1..Len(trend) :
                  i < j => TextLess(trend[i].month, trend[j].month)
            /\ \A b \in buckets : \E i \in 1..Len(trend) :
                  /\ trend[i].month = MonthLabel(b[1], b[2])
                  /\ trend[i].total =
                        SumAmounts({e \in sel : e.date.y = b[1] /\ e.date.m = b[2]})

\* The rows by descending date, rows of one date by ascending id, cut to n.
RECURSIVE ByDateThenCreation(_, _)
ByDateThenCreation(rows, n) ==
    IF rows = {} \/ n = 0 THEN <<>>
    ELSE LET first == CHOOSE e \in rows : \A o \in rows :
                          \/ e = o
                          \/ ~OnOrAfter(o.date, e.date)
                          \/ o.date = e.date /\ e.id < o.id
         IN  <<first>> \o ByDateThenCreation(rows \ {first}, n - 1)

\* C6: the recent expenses are the user's rows by descending date, rows of
\* one date in creation order, cut to the limit.
C6_RecentByCreationOrder ==
    Shown => view.recent_expenses = ByDateThenCreation(Own, RecentLimit)

\* C9: the current-month total is the sum of the user's amounts dated on or
\* after the first day of the current month, that day included.
C9_CurrentMonthTotal ==
    Shown =>
        view.monthly_expenses =
            Num(SumAmounts({e \in Own : OnOrAfter(e.date, DayOf(first_day(view.today)))}))

UserIdSpace == 1..(MaxUserId + 1)

\* C5: no stored expense refers to a user id that is not stored, each
\* refers to exactly one stored user, and the total of an id without a
\* stored user is 0.
C5_NoExpenseOfDeletedUser ==
    /\ \A e \in expenses : Cardinality({u \in users : u.id = e.user_id}) = 1
    /\ \A id \in UserIdSpace \ UserIds :
          /\ OwnedBy(expenses, id) = {}
          /\ total_expenses(expenses, id) = Num(0)
          /\ get_total_expenses(expenses, id) = 0

C5_Witness ==
    /\ view.kind = "user_deleted"
    /\ view.user_id \notin UserIds
    /\ expenses # {}

UniqueUsers ==
    \A u1, u2 \in users :
        (u1.username = u2.username \/ u1.email = u2.email) => u1 = u2

TakenAddsNothing ==
    \A r \in Requests :
        (/\ reg[r].pc # "idle"
         /\ reg'[r].pc = "idle"
         /\ UsernameExists(reg[r].username) \/ EmailExists(reg[r].email))
            => users' = users

\* C7: no two stored users share a username or an email, and a registration
\* that ends while its username or email is taken leaves the users as they were.
C7_UniqueUsernameAndEmail == []UniqueUsers /\ [][TakenAddsNothing]_vars

C7_Witness ==
    \E r \in Requests :
        /\ reg[r].pc = "commit"
        /\ UsernameExists(reg[r].username) \/ EmailExists(reg[r].email)

\* C10: a registration is stored with role 'admin' exactly when no user is
\* stored at the moment it is committed.
C10_AdminOnlyWhenStoreEmpty ==
    [][\A u \in users' \ users : (u.role = "admin") <=> (users = {})]_vars

===========================================================================
